---------------------------- MODULE Spec2Model ----------------------------
(***************************************************************************)
(* The fetch-and-cache layer of the oneseismic API: the Azure blob         *)
(* StorageClient (AzStorage.Get / AzStorage.download), the blobCache       *)
(* backends (ristrettoCache, noCache), util.UnpackAzStorageError and       *)
(* util.FetchManifest, run by concurrent requests against one origin.      *)
(*                                                                         *)
(* Spec is the client under concurrent callers, CancelSpec the same with   *)
(* contexts that are cancelled, GateSpec the manifest gate, KeySpec the    *)
(* key derivation by itself and BackendSpec the blobCache by itself.       *)
(*                                                                         *)
(* Strings are sequences of one-character strings, byte slices and         *)
(* *string pointers are records that keep Go's nil apart from "empty",     *)
(* and a Go error is the chain of its layers, outermost first (<<>> is     *)
(* the nil error).                                                         *)
(***************************************************************************)
EXTENDS Naturals, Sequences, FiniteSets, Bags, TLC

\* ------------------------------------------------------------------ bounds
\* The origin replaces the blob's content at most this many times.
MaxVersion == 1
\* Detached cache.set goroutines that may be outstanding at once.
MaxPending == 2
\* Fragments one request fetches at most.
MaxFragments == 2

\* The concurrent requests sharing the one AzStorage / blobCache pair.
Calls == {"r1", "r2"}
Versions == 0..MaxVersion

\* ------------------------------------------------------- net/http statuses
StatusNotModified == 304
StatusNotFound == 404
StatusForbidden == 403
StatusUnauthorized == 401
\* Statuses the switch in Get has no case for.
OtherStatuses == {500}

\* ------------------------------------------------------------ Go values
\* []byte: nil, or a (possibly empty) slice.
NilBytes == [isnil |-> TRUE, data |-> <<>>]
EmptyBytes == [isnil |-> FALSE, data |-> <<>>]
Bytes(d) == [isnil |-> FALSE, data |-> d]

\* *string: nil, or a pointer to a string.
NilString == [isnil |-> TRUE, str |-> <<>>]
StringPtr(s) == [isnil |-> FALSE, str |-> s]

\* *url.URL: nil, or Host / Path / RawQuery.
NilURL == [isnil |-> TRUE, Host |-> <<>>, Path |-> <<>>, RawQuery |-> <<>>]
URL(h, p, q) == [isnil |-> FALSE, Host |-> h, Path |-> p, RawQuery |-> q]

\* (*url.URL).String(), for a locator with scheme, host, path and query.
Scheme == <<"h", "t", "t", "p", ":", "/", "/">>
LocatorText(h, p, q) ==
  Scheme \o h \o p \o (IF q = <<>> THEN <<>> ELSE <<"?">> \o q)
String(u) == LocatorText(u.Host, u.Path, u.RawQuery)

\* The fragment the requests read; url.Parse keeps the leading "/" in Path.
FragHost == <<"h">>
FragPath == <<"/", "p">>
FragQuery == <<"a", "=", "1">>
Locators == {URL(FragHost, FragPath, FragQuery)}

\* error: the chain of layers, outermost first; <<>> is nil.
NilErr == <<>>
Layer(t, s, m) == [type |-> t, status |-> s, msg |-> m]
\* err.Error(): the text of the outermost layer.
ErrorText(err) == IF err = NilErr THEN <<>> ELSE Head(err).msg

\* ------------------------------------------------- api/internal (errors)
InternalError(msg) == <<Layer("InternalError", 0, msg)>>
NewInternalError == <<Layer("InternalError", 0, <<>>)>>
NotFound(msg) == <<Layer("NotFound", 0, msg)>>
PermissionDeniedFromStatus(status) == <<Layer("PermissionDenied", status, <<>>)>>

\* ----------------------------------------------------------- cacheEntry
cacheEntry(chunk, etag) == [chunk |-> chunk, etag |-> etag]
\* cacheEntry{}
ZeroEntry == cacheEntry(NilBytes, NilString)

\* ------------------------------------------------------------ the origin
\* The body and the entity tag the origin holds for version v of the blob.
Payload(v) == <<"b", v>>
ETagOf(v) == <<"e", v>>

ManifestBody == <<"m", "f">>

\* What the origin (or the transport on the way to it) does with one request.
\*   "client"    the blob client could not be constructed, nothing is sent
\*   "transport" Download fails without a status (the network)
\*   "cancelled" Download is aborted: the caller's context was cancelled
\*   "status"    Download fails with the HTTP status `status`
\*   "ok"        200, the whole body is read; `tagged`: the response has an ETag
\*   "read"      200, reading the body fails after n bytes
Answer(kind, status, tagged, n) ==
  [kind |-> kind, status |-> status, tagged |-> tagged, n |-> n]

FailureAnswers ==
  {Answer("client", 0, FALSE, 0), Answer("transport", 0, FALSE, 0)}
    \cup {Answer("status", s, FALSE, 0) :
            s \in {StatusNotFound, StatusForbidden, StatusUnauthorized}
                    \cup OtherStatuses}

BodyAnswers(body, tagged) ==
  {Answer("ok", 0, tagged, Len(body))}
    \cup {Answer("read", 0, tagged, n) : n \in 0..(Len(body) - 1)}

\* The answers to a download of version v presenting If-None-Match: etag.
\* "Not modified" is the answer exactly to a validator that names the
\* current version; an absent validator makes the request unconditional.
\* tagged: the origin is a server that sends entity tags.
OriginAnswers(etag, v, tagged) ==
  FailureAnswers
    \cup (IF ~etag.isnil /\ etag.str = ETagOf(v)
            THEN {Answer("status", StatusNotModified, FALSE, 0)}
            ELSE BodyAnswers(Payload(v), tagged))

\* The answers to a download whose context is cancelled while it is in
\* flight: the request is aborted, or the body breaks off while it is read.
CancelledAnswers(v, tagged) ==
  {Answer("client", 0, FALSE, 0), Answer("cancelled", 0, FALSE, 0)}
    \cup {Answer("read", 0, tagged, n) : n \in 0..(Len(Payload(v)) - 1)}

\* The manifest download carries no access conditions.
ManifestAnswers == FailureAnswers \cup BodyAnswers(ManifestBody, TRUE)

\* The error client.Download returns: azblob wraps what went wrong in
\* *azblob.InternalError; a reported status is a *azblob.StorageError inside.
DownloadError(ans) ==
  IF ans.kind = "status"
    THEN << Layer("*azblob.InternalError", 0, <<"w">>),
            Layer("*azblob.StorageError", ans.status, <<"s">>) >>
  ELSE IF ans.kind = "cancelled"
    THEN << Layer("*azblob.InternalError", 0, <<"w">>),
            Layer("*errors.errorString", 0, <<"c", "c">>) >>
    ELSE << Layer("*azblob.InternalError", 0, <<"w">>),
            Layer("*url.Error", 0, <<"t">>) >>
\* What NewBlobClientWithNoCredential / NewContainerClientWithNoCredential
\* return when they fail, and what ioutil.ReadAll returns when the body breaks.
ClientError == << Layer("*errors.errorString", 0, <<"c">>) >>
ReadError == << Layer("*net.OpError", 0, <<"r">>) >>

\* ------------------------------------------------------------------ util
\* errors.As(err, &stgErr) with stgErr a *azblob.StorageError: the first
\* layer of that type; the function returns the struct it points to.
RECURSIVE FirstStorageError(_)
FirstStorageError(err) ==
  IF err = <<>> THEN <<>>
  ELSE IF Head(err).type = "*azblob.StorageError" THEN <<Head(err)>>
  ELSE FirstStorageError(Tail(err))

\* Fault: only the outermost error is looked at (a type assertion in place of
\* errors.As).
UnpackAzStorageError_TopOnly(err) ==
  IF err # <<>> /\ Head(err).type = "*azblob.StorageError"
    THEN << Layer("azblob.StorageError", Head(err).status, Head(err).msg) >>
    ELSE err
UnpackAzStorageError(err) ==
  LET found == FirstStorageError(err)
  IN  IF found # <<>>
        THEN << Layer("azblob.StorageError", found[1].status, found[1].msg) >>
        ELSE err

\* FetchManifest's return values for the origin's answer.
\* Fault: a failed download is reported with a nil error.
FetchManifest_SwallowError(ans) ==
  IF ans.kind = "client" THEN [bytes |-> NilBytes, err |-> ClientError]
  ELSE IF ans.kind \in {"transport", "status"}
    THEN [bytes |-> NilBytes, err |-> NilErr]
  ELSE [bytes |-> Bytes(SubSeq(ManifestBody, 1, ans.n)),
        err |-> IF ans.kind = "read" THEN ReadError ELSE NilErr]
FetchManifest(ans) ==
  IF ans.kind = "client" THEN [bytes |-> NilBytes, err |-> ClientError]
  ELSE IF ans.kind \in {"transport", "status"}
    THEN [bytes |-> NilBytes, err |-> UnpackAzStorageError(DownloadError(ans))]
  ELSE [bytes |-> Bytes(SubSeq(ManifestBody, 1, ans.n)),
        err |-> IF ans.kind = "read" THEN ReadError ELSE NilErr]

\* --------------------------------------------------------------- storage
\* fmt.Sprintf("%s/%s", bloburl.Host, bloburl.Path)
\* Fault: the key is made of the whole locator, query string included.
newCacheKey_WithQuery(bloburl) ==
  bloburl.Host \o <<"/">> \o bloburl.Path \o <<"?">> \o bloburl.RawQuery
newCacheKey(bloburl) == bloburl.Host \o <<"/">> \o bloburl.Path

CacheKeys == {newCacheKey(u) : u \in Locators}

\* AzStorage.download: (cacheEntry, error) for the origin's answer to the
\* request for version v.
\* Fault: the error of ioutil.ReadAll is dropped.
download_DropReadError(bloburl, etag, ans, v) ==
  IF ans.kind = "client"
    THEN [entry |-> ZeroEntry, err |-> InternalError(ErrorText(ClientError))]
  ELSE IF ans.kind \in {"transport", "cancelled", "status"}
    THEN [entry |-> ZeroEntry,
          err |-> UnpackAzStorageError(DownloadError(ans))]
  ELSE [entry |-> cacheEntry(Bytes(SubSeq(Payload(v), 1, ans.n)),
                             IF ans.tagged THEN StringPtr(ETagOf(v))
                                           ELSE NilString),
        err |-> NilErr]
download(bloburl, etag, ans, v) ==
  IF ans.kind = "client"
    THEN [entry |-> ZeroEntry, err |-> InternalError(ErrorText(ClientError))]
  ELSE IF ans.kind \in {"transport", "cancelled", "status"}
    THEN [entry |-> ZeroEntry,
          err |-> UnpackAzStorageError(DownloadError(ans))]
  ELSE [entry |-> cacheEntry(Bytes(SubSeq(Payload(v), 1, ans.n)),
                             IF ans.tagged THEN StringPtr(ETagOf(v))
                                           ELSE NilString),
        err |-> IF ans.kind = "read" THEN ReadError ELSE NilErr]

\* "Not found: %s/%s"
\* Fault: the message names the host only.
NotFoundMessage_NoPath(bloburl) ==
  <<"N", "o", "t", " ", "f", "o", "u", "n", "d", ":", " ">> \o bloburl.Host
NotFoundMessage(bloburl) ==
  <<"N", "o", "t", " ", "f", "o", "u", "n", "d", ":", " ">>
    \o bloburl.Host \o <<"/">> \o bloburl.Path

\* How Get ends: its return values, whether it started `go c.cache.set`,
\* and whether it panicked instead of returning.
Outcome(bytes, err, set, panicked) ==
  [bytes |-> bytes, err |-> err, set |-> set, panicked |-> panicked]
\* Get, lines 38-40: bloburl == nil.
\* Fault: the nil locator is not reported.
GetNil_NoError == Outcome(EmptyBytes, NilErr, FALSE, FALSE)
GetNil == Outcome(EmptyBytes, InternalError(<<"n", "i", "l">>), FALSE, FALSE)

\* Get, lines 46-64: the download returned a nil error.
\* Fault: the fresh body is returned beside the InternalError.
GetFresh_LeakBytes(cached, hit, cold) ==
  IF hit
    THEN IF cached.etag.isnil
           THEN Outcome(NilBytes, NilErr, FALSE, TRUE)
           ELSE Outcome(cold.chunk, NewInternalError, FALSE, FALSE)
    ELSE Outcome(cold.chunk, NilErr, TRUE, FALSE)
\* Fault: a fresh body after a hit degrades to serving the cached payload.
GetFresh_ServeStale(cached, hit, cold) ==
  IF hit
    THEN Outcome(cached.chunk, NilErr, FALSE, FALSE)
    ELSE Outcome(cold.chunk, NilErr, TRUE, FALSE)
\* Fault: the cold fetch returns its bytes but starts no cache set.
GetFresh_MissNoSet(cached, hit, cold) ==
  IF hit
    THEN IF cached.etag.isnil
           THEN Outcome(NilBytes, NilErr, FALSE, TRUE)
           ELSE Outcome(NilBytes, NewInternalError, FALSE, FALSE)
    ELSE Outcome(cold.chunk, NilErr, FALSE, FALSE)
\* Fault: the cached payload is handed out beside the InternalError.
GetFresh_StaleBesideError(cached, hit, cold) ==
  IF hit
    THEN IF cached.etag.isnil
           THEN Outcome(NilBytes, NilErr, FALSE, TRUE)
           ELSE Outcome(cached.chunk, NewInternalError, FALSE, FALSE)
    ELSE Outcome(cold.chunk, NilErr, TRUE, FALSE)
\* Fault: the consistency violation replaces the entry with the fresh one.
GetFresh_RepairOnStale(cached, hit, cold) ==
  IF hit
    THEN IF cached.etag.isnil
           THEN Outcome(NilBytes, NilErr, FALSE, TRUE)
           ELSE Outcome(NilBytes, NewInternalError, TRUE, FALSE)
    ELSE Outcome(cold.chunk, NilErr, TRUE, FALSE)
GetFresh(cached, hit, cold) ==
  IF hit
    THEN IF cached.etag.isnil
           \* log.Printf(..., *cached.etag, ...) dereferences a nil pointer
           THEN Outcome(NilBytes, NilErr, FALSE, TRUE)
           ELSE Outcome(NilBytes, NewInternalError, FALSE, FALSE)
    ELSE Outcome(cold.chunk, NilErr, TRUE, FALSE)

\* Get, lines 79-86: the two default cases.
GetUnhandled(err) == Outcome(NilBytes, InternalError(ErrorText(err)), FALSE, FALSE)

\* Get, lines 68-82: the switch on the status of an azblob.StorageError.
\* Fault: a "not modified" answer starts a cache set, like a cold fetch.
GetStatus_SetOnNotModified(bloburl, cached, err, status) ==
  IF status = StatusNotModified
    THEN Outcome(cached.chunk, NilErr, TRUE, FALSE)
  ELSE IF status = StatusNotFound
    THEN Outcome(NilBytes, NotFound(NotFoundMessage(bloburl)), FALSE, FALSE)
  ELSE IF status \in {StatusForbidden, StatusUnauthorized}
    THEN Outcome(NilBytes, PermissionDeniedFromStatus(status), FALSE, FALSE)
  ELSE GetUnhandled(err)
\* Fault: a refused download falls back to the cached payload.
GetStatus_ServeCachedOnForbidden(bloburl, cached, err, status) ==
  IF status \in {StatusNotModified, StatusForbidden}
    THEN Outcome(cached.chunk, NilErr, FALSE, FALSE)
  ELSE IF status = StatusNotFound
    THEN Outcome(NilBytes, NotFound(NotFoundMessage(bloburl)), FALSE, FALSE)
  ELSE IF status = StatusUnauthorized
    THEN Outcome(NilBytes, PermissionDeniedFromStatus(status), FALSE, FALSE)
  ELSE GetUnhandled(err)
GetStatus(bloburl, cached, err, status) ==
  IF status = StatusNotModified
    THEN Outcome(cached.chunk, NilErr, FALSE, FALSE)
  ELSE IF status = StatusNotFound
    THEN Outcome(NilBytes, NotFound(NotFoundMessage(bloburl)), FALSE, FALSE)
  ELSE IF status = StatusForbidden
    THEN Outcome(NilBytes, PermissionDeniedFromStatus(status), FALSE, FALSE)
  ELSE IF status = StatusUnauthorized
    THEN Outcome(NilBytes, PermissionDeniedFromStatus(status), FALSE, FALSE)
  ELSE GetUnhandled(err)

\* Get, lines 66-86: the switch on the error's type.
\* Fault: the status switch has no case for "not modified".
GetFailed_NoNotModified(bloburl, cached, err) ==
  IF Head(err).type = "azblob.StorageError"
       /\ Head(err).status # StatusNotModified
    THEN GetStatus(bloburl, cached, err, Head(err).status)
    ELSE GetUnhandled(err)
\* Fault: the status switch has no case for "unauthorized".
GetFailed_NoUnauthorized(bloburl, cached, err) ==
  IF Head(err).type = "azblob.StorageError"
       /\ Head(err).status # StatusUnauthorized
    THEN GetStatus(bloburl, cached, err, Head(err).status)
    ELSE GetUnhandled(err)
\* Fault: an error of another type is passed to the caller as it is.
GetFailed_RawError(bloburl, cached, err) ==
  IF Head(err).type = "azblob.StorageError"
    THEN GetStatus(bloburl, cached, err, Head(err).status)
    ELSE Outcome(NilBytes, err, FALSE, FALSE)
GetFailed(bloburl, cached, err) ==
  IF Head(err).type = "azblob.StorageError"
    THEN GetStatus(bloburl, cached, err, Head(err).status)
    ELSE GetUnhandled(err)

\* Get, lines 45-88, once the lookup is done: the download and the branch.
GetOutcome(bloburl, cached, hit, ans, v) ==
  LET dl == download(bloburl, cached.etag, ans, v)
  IN  IF dl.err = NilErr
        THEN GetFresh(cached, hit, dl.entry)
        ELSE GetFailed(bloburl, cached, dl.err)

\* ------------------------------------------------------------------ state
VARIABLES
  backend,   \* the blobCache AzStorage was constructed with
  store,     \* what the ristretto cache holds: key -> [found, val]
  version,   \* the version of the blob the origin holds now
  etags,     \* whether the origin sends an ETag with its responses
  pending,   \* bag of the `go c.cache.set(key, cold)` calls not yet run
  pc,        \* where each caller's Get stands
  call,      \* the locals of each caller's running Get
  ret,       \* how each caller's Get ended, and what it did on the way
  rpc,       \* where each request stands with its manifest
  manifest,  \* each request's FetchManifest: the answer and what it returned
  frags,     \* the fragment fetches each request has issued
  ctx,       \* each caller's context: "live" or "cancelled"
  texts,     \* key derivation: the two locators, as written
  keys,      \* key derivation: the keys derived from them
  ops,       \* backend: the last two calls made on the blobCache
  life,      \* backend: per key, "never" set, "set" or "evicted"
  errs       \* error translator: an error, and what unpacking makes of it

getVars == <<backend, store, version, etags, pending, pc, call, ret, ctx>>
gateVars == <<rpc, manifest, frags>>
keyVars == <<texts, keys>>
opVars == <<ops, life>>
errVars == <<errs>>
vars ==
  <<backend, store, version, etags, pending, pc, call, ret, ctx,
    rpc, manifest, frags, texts, keys, ops, life, errs>>

NoManifest == [kind |-> "none", status |-> 0, bytes |-> NilBytes, err |-> NilErr]
\* overlap: this Get missed the cache while another caller's Get for the same
\* key, which had missed it too, was in its download.
NoCall ==
  [bloburl |-> NilURL, key |-> <<>>, cached |-> ZeroEntry, hit |-> FALSE,
   overlap |-> FALSE]
\* kind/status: the origin's answer to the download; served: the version it
\* answered from (MaxVersion + 1: it served none); ifNoneMatch: the validator
\* the download presented; gets/sets/downloads: the cache lookups, the
\* detached cache sets and the downloads this Get made; cancelled: the
\* caller's context was cancelled while the download was in flight; url:
\* bloburl.String(), the address the blob client was made for.
NoVersion == MaxVersion + 1
Returned(o, kind, status, served, etag, gets, sets, downloads, cancelled, url) ==
  [bytes |-> o.bytes, err |-> o.err, panicked |-> o.panicked,
   kind |-> kind, status |-> status, served |-> served,
   ifNoneMatch |-> etag, gets |-> gets, sets |-> sets,
   downloads |-> downloads, cancelled |-> cancelled, url |-> url]
NoReturn ==
  Returned(Outcome(NilBytes, NilErr, FALSE, FALSE), "none", 0, NoVersion,
           NilString, 0, 0, 0, FALSE, <<>>)

Absent == [found |-> FALSE, val |-> ZeroEntry]
Stored(val) == [found |-> TRUE, val |-> val]

\* ------------------------------------------------------------- blobCache
\* ristrettoCache.get: the value and true, or the zero entry and false.
\* Fault: hit is reported whatever the cache holds.
ristrettoGet_AlwaysHit(key) ==
  [val |-> IF store[key].found THEN store[key].val ELSE ZeroEntry,
   hit |-> TRUE]
ristrettoGet(key) ==
  [val |-> IF store[key].found THEN store[key].val ELSE ZeroEntry,
   hit |-> store[key].found]
\* noCache.get
\* Fault: the disabled cache reports a hit.
noCacheGet_Hit(key) == [val |-> ZeroEntry, hit |-> TRUE]
noCacheGet(key) == [val |-> ZeroEntry, hit |-> FALSE]
cacheGet(key) ==
  IF backend = "ristretto" THEN ristrettoGet(key) ELSE noCacheGet(key)

\* ristrettoCache.set -> ristretto.Cache.Set(key, val, 0): the entry replaces
\* whatever the key held.
\* Fault: the payload of an entry the key already holds is overwritten in
\* place, and its validator kept.
ristrettoSet_KeepValidator(key, val) ==
  [store EXCEPT ![key] = IF store[key].found
                           THEN Stored(cacheEntry(val.chunk, store[key].val.etag))
                           ELSE Stored(val)]
\* Fault: the set is never passed on to the cache.
ristrettoSet_Discard(key, val) == store
\* Fault: the entry is stored without its validator.
ristrettoSet_ChunkOnly(key, val) ==
  [store EXCEPT ![key] = Stored(cacheEntry(val.chunk, NilString))]
ristrettoSet(key, val) == [store EXCEPT ![key] = Stored(val)]
\* noCache.set
noCacheSet(key, val) == store

Init ==
  /\ backend \in {"ristretto", "nocache"}
  /\ store = [k \in CacheKeys |-> Absent]
  /\ version = 0
  /\ etags \in BOOLEAN
  /\ pending = EmptyBag
  /\ pc = [c \in Calls |-> "idle"]
  /\ call = [c \in Calls |-> NoCall]
  /\ ret = [c \in Calls |-> NoReturn]
  /\ rpc = [c \in Calls |-> "idle"]
  /\ manifest = [c \in Calls |-> NoManifest]
  /\ frags = [c \in Calls |-> 0]
  /\ ctx = [c \in Calls |-> "live"]
  /\ texts = <<>>
  /\ keys = <<>>
  /\ ops = <<>>
  /\ life = [k \in CacheKeys |-> "never"]
  /\ errs = <<>>

\* ------------------------------------------------- actions: the Storage Client
\* Get, lines 38-43: the nil check, the key and the cache lookup.
GetCall(c, bloburl) ==
  /\ pc[c] = "idle"
  /\ BagCardinality(pending) + Cardinality({d \in Calls : pc[d] = "download"})
       < MaxPending
  /\ IF bloburl.isnil
       THEN /\ ret' = [ret EXCEPT
                         ![c] = Returned(GetNil, "none", 0, NoVersion,
                                         NilString, 0, 0, 0, FALSE, <<>>)]
            /\ pc' = [pc EXCEPT ![c] = "done"]
            /\ call' = call
       ELSE LET key == newCacheKey(bloburl)
                got == cacheGet(key)
                both == \E d \in Calls \ {c} :
                          /\ pc[d] = "download"
                          /\ call[d].key = key
                          /\ ~call[d].hit
                          /\ ~got.hit
            IN  /\ call' = [call EXCEPT
                              ![c] = [bloburl |-> bloburl, key |-> key,
                                      cached |-> got.val, hit |-> got.hit,
                                      overlap |-> both]]
                /\ pc' = [pc EXCEPT ![c] = "download"]
                /\ ret' = ret
  /\ UNCHANGED <<backend, store, version, etags, pending, ctx>>
  /\ UNCHANGED <<gateVars, keyVars, opVars, errVars>>

\* Get is called with the fragment's locator, or with nil.
GetBegin(c) == \E bloburl \in Locators \cup {NilURL} : GetCall(c, bloburl)

\* Get, lines 45-88: the origin answers the download, Get branches on the
\* answer, starts the detached cache set on a cold fetch, and returns.
\* Fault: c.cache.set(key, cold) is called without `go`: Get returns only
\* when the cache has taken the entry.
GetFinish_BlockingSet(c) ==
  /\ pc[c] = "download"
  /\ \E ans \in IF ctx[c] = "cancelled"
                   THEN CancelledAnswers(version, etags)
                   ELSE OriginAnswers(call[c].cached.etag, version, etags) :
       LET l == call[c]
           dl == download(l.bloburl, l.cached.etag, ans, version)
           o == GetOutcome(l.bloburl, l.cached, l.hit, ans, version)
       IN  /\ ret' = [ret EXCEPT
                        ![c] = Returned(o, ans.kind, ans.status,
                                        IF ans.kind \in {"ok", "read"}
                                            \/ ans.status = StatusNotModified
                                          THEN version ELSE NoVersion,
                                        l.cached.etag, 1,
                                        IF o.set THEN 1 ELSE 0,
                                        IF ans.kind = "client" THEN 0 ELSE 1,
                                        ctx[c] = "cancelled",
                                        String(l.bloburl))]
           /\ store' = IF o.set /\ backend = "ristretto"
                         THEN ristrettoSet(l.key, dl.entry)
                         ELSE store
           /\ pc' = [pc EXCEPT
                       ![c] = IF o.panicked THEN "panicked" ELSE "done"]
  /\ UNCHANGED <<backend, pending, version, etags, call, ctx>>
  /\ UNCHANGED <<gateVars, keyVars, opVars, errVars>>
GetFinish(c) ==
  /\ pc[c] = "download"
  /\ \E ans \in IF ctx[c] = "cancelled"
                   THEN CancelledAnswers(version, etags)
                   ELSE OriginAnswers(call[c].cached.etag, version, etags) :
       LET l == call[c]
           dl == download(l.bloburl, l.cached.etag, ans, version)
           o == GetOutcome(l.bloburl, l.cached, l.hit, ans, version)
       IN  /\ ret' = [ret EXCEPT
                        ![c] = Returned(o, ans.kind, ans.status,
                                        IF ans.kind \in {"ok", "read"}
                                            \/ ans.status = StatusNotModified
                                          THEN version ELSE NoVersion,
                                        l.cached.etag, 1,
                                        IF o.set THEN 1 ELSE 0,
                                        IF ans.kind = "client" THEN 0 ELSE 1,
                                        ctx[c] = "cancelled",
                                        String(l.bloburl))]
           /\ pending' = IF o.set
                           THEN pending (+) SetToBag({[key |-> l.key,
                                                       val |-> dl.entry]})
                           ELSE pending
           /\ pc' = [pc EXCEPT
                       ![c] = IF o.panicked THEN "panicked" ELSE "done"]
  /\ UNCHANGED <<backend, store, version, etags, call, ctx>>
  /\ UNCHANGED <<gateVars, keyVars, opVars, errVars>>

\* The caller takes Get's result (or the server recovers the panic) and is
\* free to call Get again.
Return(c) ==
  /\ pc[c] \in {"done", "panicked"}
  /\ pc' = [pc EXCEPT ![c] = "idle"]
  /\ call' = [call EXCEPT ![c] = NoCall]
  /\ ret' = [ret EXCEPT ![c] = NoReturn]
  /\ ctx' = [ctx EXCEPT ![c] = "live"]
  /\ UNCHANGED <<backend, store, version, etags, pending>>
  /\ UNCHANGED <<gateVars, keyVars, opVars, errVars>>

\* A detached `go c.cache.set(key, cold)` runs.  ristretto admits the entry
\* or drops it (Set is best effort); noCache.set does nothing.
DetachedSet(e) ==
  /\ BagIn(e, pending)
  /\ pending' = pending (-) SetToBag({e})
  /\ \/ /\ backend = "ristretto"
        /\ store' = ristrettoSet(e.key, e.val)
     \/ /\ backend = "ristretto"
        /\ store' = store
     \/ /\ backend = "nocache"
        /\ store' = noCacheSet(e.key, e.val)
  /\ UNCHANGED <<backend, version, etags, pc, call, ret, ctx>>
  /\ UNCHANGED <<gateVars, keyVars, opVars, errVars>>

\* ristretto evicts an entry under its own policy.
Evict(key) ==
  /\ backend = "ristretto"
  /\ store[key].found
  /\ store' = [store EXCEPT ![key] = Absent]
  /\ UNCHANGED <<backend, version, etags, pending, pc, call, ret, ctx>>
  /\ UNCHANGED <<gateVars, keyVars, opVars, errVars>>

\* The origin replaces the blob's content (and with it its entity tag).
OriginUpdate ==
  /\ version < MaxVersion
  /\ version' = version + 1
  /\ UNCHANGED <<backend, store, etags, pending, pc, call, ret, ctx>>
  /\ UNCHANGED <<gateVars, keyVars, opVars, errVars>>

\* The caller's context is cancelled (the client went away, a deadline
\* passed) while its Get is in the download, or after Get has returned.
Cancel(c) ==
  /\ pc[c] \in {"download", "done"}
  /\ ctx[c] = "live"
  /\ ctx' = [ctx EXCEPT ![c] = "cancelled"]
  /\ UNCHANGED <<backend, store, version, etags, pending, pc, call, ret>>
  /\ UNCHANGED <<gateVars, keyVars, opVars, errVars>>

Next ==
  \/ \E c \in Calls : GetBegin(c)
  \/ \E c \in Calls : GetFinish(c)
  \/ \E c \in Calls : Return(c)
  \/ \E e \in BagToSet(pending) : DetachedSet(e)
  \/ \E key \in CacheKeys : Evict(key)
  \/ OriginUpdate

Spec == Init /\ [][Next]_vars

\* The same client with callers whose contexts may be cancelled, against an
\* origin whose content stays as it is.
CancelNext ==
  \/ \E c \in Calls : GetBegin(c)
  \/ \E c \in Calls : GetFinish(c)
  \/ \E c \in Calls : Return(c)
  \/ \E e \in BagToSet(pending) : DetachedSet(e)
  \/ \E key \in CacheKeys : Evict(key)
  \/ \E c \in Calls : Cancel(c)

CancelSpec == Init /\ [][CancelNext]_vars

\* The same client with callers that reach the one blob under different
\* query strings (access tokens), against an origin whose content stays as
\* it is and that may refuse any of them.
TokenLocators ==
  {URL(FragHost, FragPath, q) : q \in {<<"a", "=", "1">>, <<"a", "=", "2">>}}
GetBeginAs(c) == \E bloburl \in TokenLocators : GetCall(c, bloburl)

TokenNext ==
  \/ \E c \in Calls : GetBeginAs(c)
  \/ \E c \in Calls : GetFinish(c)
  \/ \E c \in Calls : Return(c)
  \/ \E e \in BagToSet(pending) : DetachedSet(e)
  \/ \E key \in CacheKeys : Evict(key)

TokenSpec == Init /\ [][TokenNext]_vars

\* ------------------------------------------------ actions: the manifest gate
\* A request arrives and issues its manifest download, on which it blocks.
StartRequest(r) ==
  /\ rpc[r] = "idle"
  /\ rpc' = [rpc EXCEPT ![r] = "manifest"]
  /\ UNCHANGED <<manifest, frags>>
  /\ UNCHANGED <<getVars, keyVars, opVars, errVars>>

\* FetchManifest returns; the request goes on to its fragments only when the
\* error is nil, and is discarded otherwise.
ManifestReturn(r) ==
  /\ rpc[r] = "manifest"
  /\ \E ans \in ManifestAnswers :
       LET m == FetchManifest(ans)
       IN  /\ manifest' = [manifest EXCEPT
                             ![r] = [kind |-> ans.kind, status |-> ans.status,
                                     bytes |-> m.bytes, err |-> m.err]]
           /\ rpc' = [rpc EXCEPT
                        ![r] = IF m.err = NilErr THEN "fetching" ELSE "aborted"]
  /\ UNCHANGED frags
  /\ UNCHANGED <<getVars, keyVars, opVars, errVars>>

\* The request issues a fragment fetch (a StorageClient.Get).
FetchFragment(r) ==
  /\ rpc[r] = "fetching"
  /\ frags[r] < MaxFragments
  /\ frags' = [frags EXCEPT ![r] = frags[r] + 1]
  /\ UNCHANGED <<rpc, manifest>>
  /\ UNCHANGED <<getVars, keyVars, opVars, errVars>>

\* The request ends: its fragments are fetched, or it was aborted.
EndRequest(r) ==
  /\ rpc[r] \in {"fetching", "aborted"}
  /\ rpc' = [rpc EXCEPT ![r] = "idle"]
  /\ manifest' = [manifest EXCEPT ![r] = NoManifest]
  /\ frags' = [frags EXCEPT ![r] = 0]
  /\ UNCHANGED <<getVars, keyVars, opVars, errVars>>

GateNext ==
  \/ \E r \in Calls : StartRequest(r)
  \/ \E r \in Calls : ManifestReturn(r)
  \/ \E r \in Calls : FetchFragment(r)
  \/ \E r \in Calls : EndRequest(r)

GateSpec == Init /\ [][GateNext]_vars

\* ------------------------------------------- actions: key derivation alone
\* Locators as the callers write them: scheme://host[/path][?query].
KeyHosts == {<<"h">>, <<"g">>}
KeyPaths == {<<>>, <<"/", "p">>, <<"/", "q">>}
KeyQueries == {<<>>, <<"a", "=", "1">>, <<"a", "=", "2">>}
LocatorTexts ==
  {LocatorText(h, p, q) : h \in KeyHosts, p \in KeyPaths, q \in KeyQueries}

\* The first position of s that holds one of chars; Len(s) + 1 when none does.
IndexOf(s, chars) ==
  IF \E i \in 1..Len(s) : s[i] \in chars
    THEN CHOOSE i \in 1..Len(s) :
           /\ s[i] \in chars
           /\ \A j \in 1..(i - 1) : s[j] \notin chars
    ELSE Len(s) + 1
\* url.Parse: the host runs up to the first "/" or "?", the path from that
\* "/" (kept) up to the "?", the query after the "?".
ParseURL(s) ==
  LET colon == IndexOf(s, {":"})
      rest == SubSeq(s, colon + 3, Len(s))
      h == IndexOf(rest, {"/", "?"})
      tail == SubSeq(rest, h, Len(rest))
      q == IndexOf(tail, {"?"})
  IN  URL(SubSeq(rest, 1, h - 1), SubSeq(tail, 1, q - 1),
          SubSeq(tail, q + 1, Len(tail)))

\* Two locators are handed to Get; nothing else is going on.
KeyInit ==
  /\ texts \in LocatorTexts \X LocatorTexts
  /\ keys = <<>>
  /\ backend = "nocache"
  /\ store = [k \in CacheKeys |-> Absent]
  /\ version = 0
  /\ etags = TRUE
  /\ pending = EmptyBag
  /\ pc = [c \in Calls |-> "idle"]
  /\ call = [c \in Calls |-> NoCall]
  /\ ret = [c \in Calls |-> NoReturn]
  /\ ctx = [c \in Calls |-> "live"]
  /\ rpc = [c \in Calls |-> "idle"]
  /\ manifest = [c \in Calls |-> NoManifest]
  /\ frags = [c \in Calls |-> 0]
  /\ ops = <<>>
  /\ life = [k \in CacheKeys |-> "never"]
  /\ errs = <<>>

\* Get, line 42, for each of the two locators.
DeriveKeys ==
  /\ keys = <<>>
  /\ keys' = <<newCacheKey(ParseURL(texts[1])), newCacheKey(ParseURL(texts[2]))>>
  /\ UNCHANGED texts
  /\ UNCHANGED <<getVars, gateVars, opVars, errVars>>

\* The callers come back with two other locators.
NextLocators ==
  /\ keys # <<>>
  /\ texts' \in LocatorTexts \X LocatorTexts
  /\ keys' = <<>>
  /\ UNCHANGED <<getVars, gateVars, opVars, errVars>>

KeyNext == DeriveKeys \/ NextLocators

KeySpec == KeyInit /\ [][KeyNext]_vars

\* --------------------------------------------- actions: the blobCache alone
\* The keys and entries a test of the backend sets and gets.
BackendKeys == {newCacheKey(URL(FragHost, p, <<>>)) : p \in KeyPaths \ {<<>>}}
BackendEntries ==
  {cacheEntry(Bytes(Payload(0)), StringPtr(ETagOf(0))),
   cacheEntry(Bytes(Payload(1)), NilString)}

\* One call on the blobCache.  For a get, val and hit are what it returned;
\* for a set, val is the entry, hit tells whether the cache took it, and
\* before is what a get of the key would have returned just before.
Op(op, key, val, hit, before) ==
  [op |-> op, key |-> key, val |-> val, hit |-> hit, before |-> before]
\* ops with one more call, cut to the last two.
Logged(op) == IF Len(ops) < 2 THEN Append(ops, op) ELSE <<ops[2], op>>

BackendInit ==
  /\ backend \in {"ristretto", "nocache"}
  /\ store = [k \in BackendKeys |-> Absent]
  /\ ops = <<>>
  /\ life = [k \in BackendKeys |-> "never"]
  /\ version = 0
  /\ etags = TRUE
  /\ pending = EmptyBag
  /\ pc = [c \in Calls |-> "idle"]
  /\ call = [c \in Calls |-> NoCall]
  /\ ret = [c \in Calls |-> NoReturn]
  /\ ctx = [c \in Calls |-> "live"]
  /\ rpc = [c \in Calls |-> "idle"]
  /\ manifest = [c \in Calls |-> NoManifest]
  /\ frags = [c \in Calls |-> 0]
  /\ texts = <<>>
  /\ keys = <<>>
  /\ errs = <<>>

\* blobCache.set(key, val).  ristretto's Set is best effort: the entry is in
\* the cache when the call is over, or it is not (dropped, or not applied
\* yet); the wrapper ignores which.  noCache.set does nothing.
BackendSet(key, val) ==
  /\ \/ /\ backend = "ristretto"
        /\ store' = ristrettoSet(key, val)
        /\ ops' = Logged(Op("set", key, val, TRUE, cacheGet(key)))
     \/ /\ backend = "ristretto"
        /\ store' = store
        /\ ops' = Logged(Op("set", key, val, FALSE, cacheGet(key)))
     \/ /\ backend = "nocache"
        /\ store' = noCacheSet(key, val)
        /\ ops' = Logged(Op("set", key, val, FALSE, cacheGet(key)))
  /\ life' = [life EXCEPT ![key] = "set"]
  /\ UNCHANGED <<backend, version, etags, pending, pc, call, ret, ctx>>
  /\ UNCHANGED <<gateVars, keyVars, errVars>>

\* blobCache.get(key)
BackendGet(key) ==
  /\ LET got == cacheGet(key)
     IN  ops' = Logged(Op("get", key, got.val, got.hit, got))
  /\ UNCHANGED life
  /\ UNCHANGED <<getVars, gateVars, keyVars, errVars>>

\* ristretto evicts the key's entry under its own policy.
BackendEvict(key) ==
  /\ backend = "ristretto"
  /\ store[key].found
  /\ store' = [store EXCEPT ![key] = Absent]
  /\ ops' = Logged(Op("evict", key, ZeroEntry, FALSE, cacheGet(key)))
  /\ life' = [life EXCEPT ![key] = "evicted"]
  /\ UNCHANGED <<backend, version, etags, pending, pc, call, ret, ctx>>
  /\ UNCHANGED <<gateVars, keyVars, errVars>>

BackendNext ==
  \/ \E key \in BackendKeys, val \in BackendEntries : BackendSet(key, val)
  \/ \E key \in BackendKeys : BackendGet(key)
  \/ \E key \in BackendKeys : BackendEvict(key)

BackendSpec == BackendInit /\ [][BackendNext]_vars

\* The client with the last set its cache took on record: the entry, and
\* what a get of the key returned just before.  A set the cache does not take
\* leaves no trace.
LandSet(e) ==
  /\ BagIn(e, pending)
  /\ pending' = pending (-) SetToBag({e})
  /\ \/ /\ backend = "ristretto"
        /\ store' = ristrettoSet(e.key, e.val)
        /\ ops' = <<Op("set", e.key, e.val, TRUE, cacheGet(e.key))>>
     \/ /\ backend = "ristretto"
        /\ store' = store
        /\ ops' = ops
     \/ /\ backend = "nocache"
        /\ store' = noCacheSet(e.key, e.val)
        /\ ops' = ops
  /\ UNCHANGED <<backend, version, etags, pc, call, ret, ctx, life>>
  /\ UNCHANGED <<gateVars, keyVars, errVars>>

StaleNext ==
  \/ \E c \in Calls : GetBegin(c)
  \/ \E c \in Calls : GetFinish(c)
  \/ \E c \in Calls : Return(c)
  \/ \E e \in BagToSet(pending) : LandSet(e)
  \/ \E key \in CacheKeys : Evict(key)
  \/ OriginUpdate

\* The origin is a server that sends entity tags: every entry that reaches
\* the cache carries a validator.
StaleInit == Init /\ etags
StaleSpec == StaleInit /\ [][StaleNext]_vars

\* ------------------------------------------ actions: the error translator
\* The errors handed to UnpackAzStorageError: up to two wrapping layers
\* around nothing, around a storage error (by pointer, as azblob returns it,
\* or by value, as UnpackAzStorageError returns it), or around another error.
MaxWrap == 2
Wrappers ==
  {Layer("*azblob.InternalError", 0, <<"w">>), Layer("*url.Error", 0, <<"t">>),
   Layer("*fmt.wrapError", 0, <<"f">>)}
Leaves ==
  {<<>>, << Layer("*errors.errorString", 0, <<"c">>) >>}
    \cup {<< Layer(t, st, <<"s">>) >> :
            t \in {"*azblob.StorageError", "azblob.StorageError"},
            st \in {StatusNotModified, StatusNotFound} \cup OtherStatuses}
RECURSIVE Wrapped(_)
\* The chains of exactly n wrappers around a leaf.
Wrapped(n) ==
  IF n = 0 THEN Leaves
  ELSE {<<w>> \o e : w \in Wrappers, e \in Wrapped(n - 1)}
Errors == UNION {Wrapped(n) : n \in 0..MaxWrap}

UnpackInit ==
  /\ errs \in {<<e>> : e \in Errors}
  /\ backend = "nocache"
  /\ store = [k \in CacheKeys |-> Absent]
  /\ version = 0
  /\ etags = TRUE
  /\ pending = EmptyBag
  /\ pc = [c \in Calls |-> "idle"]
  /\ call = [c \in Calls |-> NoCall]
  /\ ret = [c \in Calls |-> NoReturn]
  /\ ctx = [c \in Calls |-> "live"]
  /\ rpc = [c \in Calls |-> "idle"]
  /\ manifest = [c \in Calls |-> NoManifest]
  /\ frags = [c \in Calls |-> 0]
  /\ texts = <<>>
  /\ keys = <<>>
  /\ ops = <<>>
  /\ life = [k \in CacheKeys |-> "never"]

\* UnpackAzStorageError is applied to the error, and again to each result.
Unpack ==
  /\ Len(errs) \in 1..2
  /\ errs' = Append(errs, UnpackAzStorageError(errs[Len(errs)]))
  /\ UNCHANGED <<getVars, gateVars, keyVars, opVars>>

UnpackNext == Unpack

UnpackSpec == UnpackInit /\ [][UnpackNext]_vars

\* ----------------------------------------------------------------- claims
\* err is the domain error of the given kind (api/internal), and nothing else.
IsDomain(err, kind) == Len(err) = 1 /\ Head(err).type = kind
\* The byte slice is empty or absent.
NoBytes(b) == Len(b.data) = 0
\* sub occurs in s.
Contains(s, sub) ==
  \E i \in 0..(Len(s) - Len(sub)) : SubSeq(s, i + 1, i + Len(sub)) = sub
\* Get has returned to caller c, who has not yet taken the result.
Done(c) == pc[c] = "done"

\* C1: whenever Get returns bytes with a nil error, the bytes are the payload
\* the origin held when it answered this call's download: the fresh body of
\* the response, or the cached payload whose validator the origin has just
\* confirmed with "not modified"; never a payload the origin had replaced.
C1_ReturnsOriginPayload ==
  \A c \in Calls :
    (Done(c) /\ ret[c].err = NilErr) =>
      /\ ret[c].served \in Versions
      /\ ret[c].bytes = Bytes(Payload(ret[c].served))
      /\ \/ ret[c].kind = "ok"
         \/ /\ ret[c].status = StatusNotModified
            /\ call[c].hit
            /\ ret[c].ifNoneMatch = StringPtr(ETagOf(ret[c].served))
\* A revalidated hit on content the origin had replaced before it was cached,
\* while the other caller's Get is in flight.
C1_Witness ==
  \E c \in Calls :
    /\ Done(c)
    /\ ret[c].err = NilErr
    /\ ret[c].status = StatusNotModified
    /\ ret[c].served > 0
    /\ \E d \in Calls : pc[d] = "download"

\* C2: a hit followed by a download that succeeds with a full fresh payload
\* makes Get return InternalError and no bytes.
C2_HitThenFreshIsInternalError ==
  \A c \in Calls :
    (pc[c] \in {"done", "panicked"} /\ call[c].hit /\ ret[c].kind = "ok") =>
      /\ ~ret[c].panicked
      /\ IsDomain(ret[c].err, "InternalError")
      /\ NoBytes(ret[c].bytes)
\* The same for the entries that carry a validator, where the code does so.
C2_WithValidator ==
  \A c \in Calls :
    (pc[c] \in {"done", "panicked"} /\ call[c].hit /\ ret[c].kind = "ok"
       /\ ~call[c].cached.etag.isnil) =>
      /\ ~ret[c].panicked
      /\ IsDomain(ret[c].err, "InternalError")
      /\ NoBytes(ret[c].bytes)

\* C3: a hit on {payload C, validator V} that the origin answers with "not
\* modified" makes Get return exactly C with a nil error, and start no
\* cache set.
C3_NotModifiedReturnsCached ==
  \A c \in Calls :
    (Done(c) /\ call[c].hit /\ ret[c].status = StatusNotModified) =>
      /\ ret[c].ifNoneMatch = call[c].cached.etag
      /\ ret[c].bytes = call[c].cached.chunk
      /\ ret[c].err = NilErr
      /\ ret[c].sets = 0
C3_Witness ==
  \E c \in Calls :
    /\ Done(c)
    /\ call[c].hit
    /\ ret[c].status = StatusNotModified
    /\ ret[c].bytes = call[c].cached.chunk
    /\ ~NoBytes(ret[c].bytes)
    /\ pending = EmptyBag

\* C4: a miss followed by fresh bytes B with validator V2 makes Get return
\* (B, nil) and hand {B, V2} under the locator's key to one detached cache
\* set; once that set has run and the ristretto backend has taken it, the
\* cache answers get(key) with ({B, V2}, true).
ColdReturn(c) == Done(c) /\ ~call[c].hit /\ ret[c].kind = "ok"
C4_Returns ==
  \A c \in Calls :
    ColdReturn(c) =>
      /\ ret[c].err = NilErr
      /\ ret[c].bytes = Bytes(Payload(ret[c].served))
      /\ ret[c].sets = 1
C4_Offers ==
  \A c \in Calls :
    (pc[c] = "download" /\ pc'[c] = "done" /\ ~call[c].hit
       /\ ret'[c].kind = "ok") =>
      pending' = pending (+) SetToBag(
        {[key |-> newCacheKey(call[c].bloburl),
          val |-> cacheEntry(Bytes(Payload(version)),
                             IF etags THEN StringPtr(ETagOf(version))
                                      ELSE NilString)]})
C4_Stores ==
  \A e \in BagToSet(pending) :
    (backend = "ristretto" /\ pending' = pending (-) SetToBag({e})
       /\ store' # store) =>
      cacheGet(e.key)' = [val |-> e.val, hit |-> TRUE]
C5_ManifestGate ==
  \A r \in Calls :
    /\ frags[r] > 0 => (manifest[r].kind = "ok" /\ manifest[r].err = NilErr)
    /\ rpc[r] \in {"manifest", "aborted"} => frags[r] = 0
    /\ rpc[r] = "fetching" => manifest[r].kind = "ok"
\* One request is refused its manifest (403) while another has fetched.
C5_Witness ==
  \E r \in Calls :
    /\ rpc[r] = "aborted"
    /\ manifest[r].status = StatusForbidden
    /\ frags[r] = 0
    /\ \E q \in Calls : frags[q] > 0

\* C6: Get with a nil locator returns InternalError at once: no download,
\* no cache get, no cache set.
C6_NilLocator ==
  \A c \in Calls :
    (Done(c) /\ call[c].bloburl.isnil) =>
      /\ IsDomain(ret[c].err, "InternalError")
      /\ ret[c].downloads = 0
      /\ ret[c].gets = 0
      /\ ret[c].sets = 0
C6_Witness ==
  \E c \in Calls :
    /\ Done(c)
    /\ call[c].bloburl.isnil
    /\ IsDomain(ret[c].err, "InternalError")
    /\ ret[c].downloads = 0

\* C7: a download that fails with status 404 makes Get return NotFound, with
\* the locator's host and path in the message, and no bytes.
C7_NotFound ==
  \A c \in Calls :
    (Done(c) /\ ret[c].kind = "status" /\ ret[c].status = StatusNotFound) =>
      /\ IsDomain(ret[c].err, "NotFound")
      /\ Contains(Head(ret[c].err).msg, call[c].bloburl.Host)
      /\ Contains(Head(ret[c].err).msg, call[c].bloburl.Path)
      /\ NoBytes(ret[c].bytes)
C7_Witness ==
  \E c \in Calls :
    /\ Done(c)
    /\ ret[c].status = StatusNotFound
    /\ IsDomain(ret[c].err, "NotFound")
    /\ Contains(Head(ret[c].err).msg, FragHost \o <<"/">> \o FragPath)

\* C8: a download that fails with status 403 or 401 makes Get return
\* PermissionDenied and no bytes, with or without a cached entry.
C8_PermissionDenied ==
  \A c \in Calls :
    (Done(c) /\ ret[c].kind = "status"
       /\ ret[c].status \in {StatusForbidden, StatusUnauthorized}) =>
      /\ IsDomain(ret[c].err, "PermissionDenied")
      /\ NoBytes(ret[c].bytes)
C8_Witness ==
  \E c \in Calls :
    /\ Done(c)
    /\ call[c].hit
    /\ ret[c].status = StatusUnauthorized
    /\ IsDomain(ret[c].err, "PermissionDenied")
    /\ NoBytes(ret[c].bytes)

\* C9: a download that fails with any other status, or with an error that
\* carries none (a broken body read included), makes Get return InternalError
\* and no bytes.
C9_OtherFailures ==
  \A c \in Calls :
    (Done(c)
       /\ \/ ret[c].kind \in {"client", "transport", "read"}
          \/ /\ ret[c].kind = "status"
             /\ ret[c].status \notin {StatusNotModified, StatusNotFound,
                                      StatusForbidden, StatusUnauthorized}) =>
      /\ IsDomain(ret[c].err, "InternalError")
      /\ NoBytes(ret[c].bytes)
C9_Witness ==
  \E c, d \in Calls :
    /\ Done(c) /\ ret[c].kind = "read"
    /\ IsDomain(ret[c].err, "InternalError")
    /\ Done(d) /\ ret[d].kind = "status" /\ ret[d].status \in OtherStatuses
    /\ IsDomain(ret[d].err, "InternalError")

\* C10: every non-nil error Get returns is an InternalError, a NotFound or a
\* PermissionDenied, never an error of the origin's, and comes with no bytes.
C10_OnlyDomainErrors ==
  \A c \in Calls :
    (Done(c) /\ ret[c].err # NilErr) =>
      /\ \E kind \in {"InternalError", "NotFound", "PermissionDenied"} :
           IsDomain(ret[c].err, kind)
      /\ NoBytes(ret[c].bytes)
\* The consistency violation: a fresh body after a hit, and nothing leaks.
C10_Witness ==
  \E c \in Calls :
    /\ Done(c)
    /\ call[c].hit
    /\ ret[c].kind = "ok"
    /\ IsDomain(ret[c].err, "InternalError")
    /\ ret[c].bytes = NilBytes

\* The locator text http://h/p?a=<n>.
HP(n) == LocatorText(<<"h">>, <<"/", "p">>, <<"a", "=", n>>)
Derived == keys # <<>>

\* C11: two locators with the same host and the same path derive the same
\* cache key, whatever their query strings.
C11_QueryIgnored ==
  Derived =>
    LET a == ParseURL(texts[1])
        b == ParseURL(texts[2])
    IN  (a.Host = b.Host /\ a.Path = b.Path) => keys[1] = keys[2]
\* Same host and path, different query strings, one key.
C11_Witness ==
  /\ Derived
  /\ texts = <<HP("1"), HP("2")>>
  /\ ParseURL(texts[1]).RawQuery # ParseURL(texts[2]).RawQuery
  /\ keys[1] = keys[2]

\* C12: http://h/p?a=1 and http://h/p?a=2 both derive exactly the key "h/p".
C12_KeyIsHostSlashPath ==
  (Derived /\ texts = <<HP("1"), HP("2")>>) =>
    /\ keys[1] = <<"h", "/", "p">>
    /\ keys[2] = <<"h", "/", "p">>
\* What the code derives for them: host, "/", and the path with its own "/".
C12_KeyAsDerived ==
  (Derived /\ texts = <<HP("1"), HP("2")>>) =>
    /\ keys[1] = <<"h", "/", "/", "p">>
    /\ keys[2] = <<"h", "/", "/", "p">>

\* The entry a caller's returned cold fetch handed to its detached cache set.
Offered(c) ==
  [key |-> call[c].key,
   val |-> cacheEntry(ret[c].bytes,
                      IF etags THEN StringPtr(ETagOf(ret[c].served))
                               ELSE NilString)]

\* C13: Get returns the fresh bytes of a cold fetch without waiting for the
\* cache: the step in which it returns leaves the cache as it was and only
\* hands the entry to a detached set, so a get for the key may still miss.
C13_ReturnDoesNotWait ==
  [][\A c \in Calls :
       (pc[c] = "download" /\ pc'[c] = "done" /\ ~call[c].hit
          /\ ret'[c].kind = "ok") =>
         /\ ret'[c].err = NilErr
         /\ ret'[c].bytes = Bytes(Payload(version))
         /\ store' = store
         /\ cacheGet(call[c].key)' = cacheGet(call[c].key)
         /\ BagCardinality(pending') = BagCardinality(pending) + 1]_vars
\* Two cold fetches have returned their bytes; the set of one is still
\* outstanding, the set of the other was dropped, and a get still misses.
C13_Witness ==
  \E c, d \in Calls :
    /\ backend = "ristretto"
    /\ ColdReturn(c) /\ ret[c].err = NilErr
    /\ ColdReturn(d) /\ ret[d].err = NilErr
    /\ ret[c].served # ret[d].served
    /\ pending = SetToBag({Offered(c)})
    /\ ~cacheGet(call[c].key).hit

\* C14: two Gets for one key that run concurrently and both miss both return
\* the origin's bytes with a nil error and both start a cache set; whatever
\* the cache then comes to hold for the key is, whole, the entry of one of
\* the sets handed to it.
C14_BothReturn ==
  \A c, d \in Calls :
    (c # d /\ Done(c) /\ Done(d) /\ call[c].overlap
       /\ call[c].key = call[d].key /\ ~call[d].hit
       /\ ret[c].kind = "ok" /\ ret[d].kind = "ok") =>
      \A x \in {c, d} :
        /\ ret[x].err = NilErr
        /\ ret[x].bytes = Bytes(Payload(ret[x].served))
        /\ ret[x].sets = 1
C14_OneSetWins ==
  \A k \in CacheKeys :
    (store'[k] # store[k] /\ store'[k].found) =>
      \E e \in BagToSet(pending) :
        /\ e.key = k
        /\ store'[k] = Stored(e.val)
        /\ pending' = pending (-) SetToBag({e})
\* C14, as one formula: both concurrent cold fetches return the origin's
\* bytes and start a set, and the cache takes the entry of one set, whole.
C14_ConcurrentColdFetches == []C14_BothReturn /\ [][C14_OneSetWins]_vars
\* Both have returned bytes of different versions; the set of the one that
\* was served first landed last and is what the cache holds.
C14_Witness ==
  \E c, d \in Calls :
    /\ c # d /\ ColdReturn(c) /\ ColdReturn(d) /\ call[c].overlap
    /\ ret[c].err = NilErr /\ ret[d].err = NilErr
    /\ ret[c].served < ret[d].served
    /\ pending = EmptyBag
    /\ store[call[c].key] = Stored(Offered(c).val)

\* C15: a Get whose context is cancelled while its download is in flight
\* returns an error and no bytes and starts no cache set; cancelling the
\* context of a Get that has returned leaves the detached sets, and the
\* cache, as they are, and the sets can still run.
C15_CancelledInFlight ==
  \A c \in Calls :
    (Done(c) /\ ret[c].cancelled) =>
      /\ IsDomain(ret[c].err, "InternalError")
      /\ NoBytes(ret[c].bytes)
      /\ ret[c].sets = 0
      /\ ret[c].kind \notin {"ok", "status"}
C15_SetsOutliveContext ==
  \A e \in BagToSet(pending) : ENABLED DetachedSet(e)
C15_CancelKeepsSets ==
  \A c \in Calls :
    (ctx[c] = "live" /\ ctx'[c] = "cancelled") =>
      (pending' = pending /\ store' = store)
\* C15, as one formula: a Get cancelled in flight returns an error and
\* starts no set; a cancellation after the return leaves the sets to run.
C15_Cancellation ==
  /\ [](C15_CancelledInFlight /\ C15_SetsOutliveContext)
  /\ [][C15_CancelKeepsSets]_vars
\* One caller was cancelled in flight and got the error; the other was
\* cancelled after its cold fetch returned, and its set is still to run.
C15_Witness ==
  \E c, d \in Calls :
    /\ Done(c) /\ ret[c].cancelled /\ ret[c].kind = "cancelled"
    /\ IsDomain(ret[c].err, "InternalError")
    /\ ColdReturn(d) /\ ~ret[d].cancelled /\ ctx[d] = "cancelled"
    /\ pending = SetToBag({Offered(d)})
    /\ ENABLED DetachedSet(Offered(d))

\* A get follows straight on a set of the same key.
SetThenGet ==
  /\ Len(ops) = 2
  /\ ops[1].op = "set" /\ ops[2].op = "get"
  /\ ops[1].key = ops[2].key
LastIsGet == ops # <<>> /\ ops[Len(ops)].op = "get"

\* C16: bounded backend: set(k, v) immediately followed by get(k) returns
\* (v, true).
C16_SetThenGetFinds ==
  (backend = "ristretto" /\ SetThenGet) =>
    (ops[2].val = ops[1].val /\ ops[2].hit)
\* C16, amended: it returns (v, true) when the cache took the set, and
\* otherwise what get(k) returned before the set.
C16_SetThenGetIfTaken ==
  (backend = "ristretto" /\ SetThenGet) =>
    IF ops[1].hit
      THEN ops[2].val = ops[1].val /\ ops[2].hit
      ELSE [val |-> ops[2].val, hit |-> ops[2].hit] = ops[1].before
\* A set the cache took replaces another entry, and the get returns it.
C16_Witness ==
  /\ backend = "ristretto"
  /\ SetThenGet
  /\ ops[1].hit
  /\ ops[1].before.hit /\ ops[1].before.val # ops[1].val
  /\ ops[2].val = ops[1].val /\ ops[2].hit

\* C17: no-op backend: a get returns found = false and the zero entry, for a
\* key that was just set as for any other.
C17_NoCacheNeverFinds ==
  (backend = "nocache" /\ LastIsGet) =>
    (~ops[Len(ops)].hit /\ ops[Len(ops)].val = ZeroEntry)
C17_Witness ==
  /\ backend = "nocache"
  /\ SetThenGet
  /\ life[ops[2].key] = "set"
  /\ ~ops[2].hit /\ ops[2].val = ZeroEntry

\* C18: with either backend, a get of a key that was never set, or whose
\* entry was evicted, returns found = false and the zero entry.
C18_AbsentKeyMisses ==
  (LastIsGet /\ life[ops[Len(ops)].key] \in {"never", "evicted"}) =>
    (~ops[Len(ops)].hit /\ ops[Len(ops)].val = ZeroEntry)
\* The entry was there, was evicted, and the get that follows misses.
C18_Witness ==
  /\ Len(ops) = 2
  /\ ops[1].op = "evict" /\ ops[1].before.hit
  /\ ops[2].op = "get" /\ ops[2].key = ops[1].key
  /\ ~ops[2].hit /\ ops[2].val = ZeroEntry

\* C19: Get starts a cache set in one branch only, the full fresh payload
\* after a miss; no step of Get changes what the cache holds.
C19_SetOnlyWhenCold ==
  \A c \in Calls :
    pc[c] \in {"done", "panicked"} =>
      /\ ret[c].sets \in {0, 1}
      /\ ret[c].sets = 1 <=>
           (~call[c].bloburl.isnil /\ ~call[c].hit /\ ret[c].kind = "ok")
C19_GetLeavesCache ==
  pc' # pc =>
    /\ store' = store
    /\ \/ pending' = pending
       \/ \E c \in Calls :
            /\ pc[c] = "download" /\ pc'[c] = "done"
            /\ ~call[c].hit /\ ret'[c].kind = "ok"
            /\ pending' = pending (+) SetToBag({Offered(c)'})
\* C19, as one formula: one set, in the cold branch only, and no step of Get
\* that changes, deletes or updates what the cache holds.
C19_OneWritingBranch == []C19_SetOnlyWhenCold /\ [][C19_GetLeavesCache]_vars
\* A hit that the origin refused (403) beside a cold fetch: one set in all.
C19_Witness ==
  \E c, d \in Calls :
    /\ Done(c) /\ call[c].hit /\ ret[c].status = StatusForbidden
    /\ ret[c].sets = 0
    /\ ColdReturn(d) /\ ret[d].sets = 1
    /\ store[call[c].key] = Stored(call[c].cached)

\* C20: every entry the cache holds, and every entry on its way into it, is
\* the full payload of one origin response with the validator of that same
\* response (or none, from an origin that sends none).
FromOneResponse(val) ==
  \E v \in Versions :
    val = cacheEntry(Bytes(Payload(v)),
                     IF etags THEN StringPtr(ETagOf(v)) ELSE NilString)
C20_EntriesAreWhole ==
  /\ \A k \in CacheKeys : store[k].found => FromOneResponse(store[k].val)
  /\ \A e \in BagToSet(pending) : FromOneResponse(e.val)
\* The cache holds the newer response while the set of the older one for
\* the same key is still outstanding.
C20_Witness ==
  \E k \in CacheKeys :
    /\ etags
    /\ store[k] = Stored(cacheEntry(Bytes(Payload(1)), StringPtr(ETagOf(1))))
    /\ pending = SetToBag({[key |-> k,
                            val |-> cacheEntry(Bytes(Payload(0)),
                                               StringPtr(ETagOf(0)))]})

\* Get has ended for caller c, by returning or by panicking.
Ended(c) == pc[c] \in {"done", "panicked"}
\* Get was called with a locator and has ended.
EndedWithLocator(c) == Ended(c) /\ ~call[c].bloburl.isnil

\* C21: the download presents the cached validator as If-None-Match exactly
\* when the lookup was a hit, and is unconditional exactly when it was a miss.
C21_ConditionalIffHit ==
  \A c \in Calls :
    EndedWithLocator(c) =>
      /\ call[c].hit <=> ~ret[c].ifNoneMatch.isnil
      /\ call[c].hit => ret[c].ifNoneMatch = call[c].cached.etag
\* What the code does: it presents cached.etag, which is nil on a miss and
\* also on a hit whose entry was stored without a validator.
C21_PresentsCachedEtag ==
  \A c \in Calls :
    EndedWithLocator(c) =>
      /\ ret[c].ifNoneMatch = call[c].cached.etag
      /\ ~call[c].hit => ret[c].ifNoneMatch.isnil
      /\ (call[c].hit /\ etags) => ~ret[c].ifNoneMatch.isnil

\* C22: every Get with a locator issues exactly one download, in every
\* branch.
C22_ExactlyOneDownload ==
  \A c \in Calls : EndedWithLocator(c) => ret[c].downloads = 1
\* C22, amended: one download, or none when the blob client cannot be
\* constructed; a fresh payload after a hit is followed by no second
\* download, and the cached payload is not returned.
C22_AtMostOneDownload ==
  \A c \in Calls :
    EndedWithLocator(c) =>
      /\ ret[c].downloads = (IF ret[c].kind = "client" THEN 0 ELSE 1)
      /\ ret[c].gets = 1
      /\ (call[c].hit /\ ret[c].kind = "ok") =>
           /\ ret[c].downloads = 1
           /\ NoBytes(ret[c].bytes)
           /\ ret[c].err # NilErr \/ ret[c].panicked
\* One Get failed before any download; another hit a stale entry, downloaded
\* once and returned InternalError without the cached payload.
C22_Witness ==
  \E c, d \in Calls :
    /\ Done(c) /\ ret[c].kind = "client" /\ ret[c].downloads = 0
    /\ IsDomain(ret[c].err, "InternalError")
    /\ Done(d) /\ call[d].hit /\ ret[d].kind = "ok" /\ ret[d].downloads = 1
    /\ ~NoBytes(call[d].cached.chunk)
    /\ IsDomain(ret[d].err, "InternalError") /\ NoBytes(ret[d].bytes)

\* The positions of err that hold a storage error by pointer.
StoragePointers(err) ==
  {i \in 1..Len(err) : err[i].type = "*azblob.StorageError"}

\* C23: UnpackAzStorageError returns the storage error (with its status) that
\* the given error wraps, by value; an error that wraps none is returned
\* unchanged; applied to its own result it returns that result unchanged.
C23_UnpackIdempotent ==
  /\ Len(errs) >= 2 =>
       IF StoragePointers(errs[1]) = {}
         THEN errs[2] = errs[1]
         ELSE \E i \in StoragePointers(errs[1]) :
                /\ \A j \in StoragePointers(errs[1]) : i <= j
                /\ Len(errs[2]) = 1
                /\ errs[2][1].type = "azblob.StorageError"
                /\ errs[2][1].status = errs[1][i].status
                /\ errs[2][1].msg = errs[1][i].msg
  /\ Len(errs) = 3 => errs[3] = errs[2]
\* A 404 under two wrappers was unpacked, and unpacking the result again
\* changed nothing.
C23_Witness ==
  /\ Len(errs) = 3
  /\ Len(errs[1]) = 3
  /\ errs[1][3].type = "*azblob.StorageError"
  /\ errs[2] # errs[1]
  /\ errs[2][1].status = StatusNotFound
  /\ errs[3] = errs[2]

\* C24: Get ends with a (bytes, error) result for every cache state; a hit
\* on an entry without validator followed by a successful download returns
\* InternalError and does not crash.
C24_NeverPanics ==
  \A c \in Calls :
    /\ pc[c] # "panicked"
    /\ (Done(c) /\ call[c].hit /\ call[c].cached.etag.isnil
          /\ ret[c].kind = "ok") =>
         IsDomain(ret[c].err, "InternalError")

\* C25: a Get whose download the origin refuses (401, 403, 404) returns no
\* bytes, whatever another caller stored under the key; bytes come back with
\* a nil error after a hit only when the origin answered "not modified" to
\* this call's own download, made for the caller's whole locator, query
\* string included.
C25_RefusedGetsNothing ==
  \A c \in Calls :
    /\ (Done(c) /\ ret[c].kind = "status"
          /\ ret[c].status \in {StatusUnauthorized, StatusForbidden,
                                StatusNotFound}) =>
         (NoBytes(ret[c].bytes) /\ ret[c].err # NilErr)
    /\ (Done(c) /\ call[c].hit /\ ~NoBytes(ret[c].bytes)) =>
         /\ ret[c].status = StatusNotModified
         /\ ret[c].downloads = 1
         /\ ret[c].bytes = call[c].cached.chunk
    /\ EndedWithLocator(c) =>
         /\ ret[c].url = String(call[c].bloburl)
         /\ ParseURL(ret[c].url).RawQuery = call[c].bloburl.RawQuery
\* The entry is the one the caller with a=1 fetched; the caller with a=2
\* hits it, is refused by the origin, and gets PermissionDenied and no bytes.
C25_Witness ==
  \E c, d \in Calls :
    /\ ColdReturn(d) /\ call[d].bloburl.RawQuery = <<"a", "=", "1">>
    /\ Done(c) /\ call[c].bloburl.RawQuery = <<"a", "=", "2">>
    /\ call[c].hit /\ call[c].cached = Offered(d).val
    /\ ret[c].status = StatusForbidden
    /\ IsDomain(ret[c].err, "PermissionDenied")
    /\ NoBytes(ret[c].bytes)

\* C26: a Get that hits an entry whose validator no longer names the
\* origin's content, and that the origin answers with a full payload, returns
\* InternalError and no bytes and starts no cache set.
C26_StaleGetFails ==
  \A c \in Calls :
    (Ended(c) /\ call[c].hit /\ ~call[c].cached.etag.isnil
       /\ ret[c].kind = "ok") =>
      /\ Done(c)
      /\ call[c].cached.etag.str # ETagOf(ret[c].served)
      /\ IsDomain(ret[c].err, "InternalError")
      /\ NoBytes(ret[c].bytes)
      /\ ret[c].sets = 0
\* C26: no step of a Get that hit touches the cache: the lookup and the
\* return after the download leave the entries and the outstanding sets as
\* they are.
C26_GetKeepsEntry ==
  [][\A c \in Calls :
       /\ (pc[c] = "idle" /\ pc'[c] # "idle") =>
            (store' = store /\ pending' = pending)
       /\ (pc[c] = "download" /\ call[c].hit /\ pc'[c] # "download") =>
            (store' = store /\ pending' = pending)]_vars
\* C26, as one formula: the stale entry makes Get fail and Get leaves it.
C26_StaleEntryStays == []C26_StaleGetFails /\ C26_GetKeepsEntry
\* The cache took the set of the older cold fetch on a key that held the
\* entry of the newer one, and still holds it; a Get hit it, the origin sent
\* the current payload, and Get returned InternalError.
C26_Witness ==
  /\ Len(ops) = 1
  /\ ops[1].op = "set" /\ ops[1].hit
  /\ ops[1].val = cacheEntry(Bytes(Payload(0)), StringPtr(ETagOf(0)))
  /\ ops[1].before =
       [val |-> cacheEntry(Bytes(Payload(1)), StringPtr(ETagOf(1))),
        hit |-> TRUE]
  /\ store[ops[1].key] = Stored(ops[1].val)
  /\ version = 1
  /\ \E c \in Calls :
       /\ Done(c) /\ call[c].hit /\ call[c].key = ops[1].key
       /\ call[c].cached = ops[1].val
       /\ ret[c].kind = "ok" /\ ret[c].served = 1
       /\ IsDomain(ret[c].err, "InternalError")
       /\ NoBytes(ret[c].bytes)

=============================================================================
